---- MODULE Spec2Model ----
(***************************************************************************)
(* Stompbox firmware: the OSC receive framing state machine and the send   *)
(* helpers of StompboxOSC.cpp, and the LED animation primitives of         *)
(* StompboxLEDs.cpp.                                                       *)
(*                                                                         *)
(* The SLIP transport and the OSC codec are library code.  The transport   *)
(* is modelled by its decoded stream: a sequence of data bytes and         *)
(* end-of-packet markers.  The codec's decode error is a sticky flag that  *)
(* any fill() may raise and only empty() clears; which fill raises it is   *)
(* the codec's choice and is left nondeterministic.                        *)
(*                                                                         *)
(* A pixel of leds[] is modelled by the CHSV value last assigned to it;    *)
(* the conversion to CRGB that the assignment performs is FastLED's.       *)
(***************************************************************************)
EXTENDS Integers, Sequences, FiniteSets, TLC

\* ------------------------------------------------------------------ bounds
MaxInbuf == 3       \* decoded items waiting in the serial receive buffer
MaxPacket == 2      \* data bytes of one inbound packet
MaxClock == 40      \* no operation of Spec or SpecSend starts at or after this time (ms)
MaxVal == 4         \* brightness values 0..MaxVal (and V_FULL) given to glowChange
MaxStep == 2        \* |change_step| given to glowChange
MaxSlow == 1        \* slowness given to glowChange
MaxLedClock == 9000 \* no call of SpecIdle starts, and no tick ends, after this

\* --------------------------------------------------------- program constants
MINIMUM_TIME_BETWEEN_OSC_SENDS == 10
HASH == 35
SLASH == 47
SLIP_END == 192     \* the transport's end-of-packet marker, as an item of inbuf
FLASH_MS == 50

\* '#', '/' and '!' (33), which stands for every other byte
Bytes == {HASH, SLASH} \cup {33}
Items == Bytes \cup {SLIP_END}

VARIABLES
  listeningFor,           \* static listening_status_e listeningFor
  bundleIN,               \* static OSCBundle *bundleIN  : [buf, error]
  messageIN,              \* static OSCMessage *messageIN: [buf, error]
  inbuf,                  \* decoded items received and not yet read
  now,                    \* millis()
  last_OSC_send_time,
  last_OSC_receive_time,
  events,                 \* what the last operation did, in order
  packet,                 \* history of the inbound packet being read
  sendStarts,             \* when the last two transmissions began
  leds,                   \* CRGB leds[NUM_LEDS], as the CHSV last assigned
  glow,                   \* the glowChange call in progress: arguments and j
  script,                 \* the statements the running lightshow has left
  previous,               \* idleAnimation's static time_ms previous
  previousSet,            \* whether that static has been initialised
  call,                   \* history of the LED operation last called
  written,                \* values glowChange has written in this call
  steplog,                \* what the last LED step did, in order
  reference,              \* when idleAnimation was first called or last rippled
  trace                   \* the pixel writes of the LED operation last called

oscVars == <<listeningFor, bundleIN, messageIN, inbuf, last_OSC_send_time,
             last_OSC_receive_time, events, packet, sendStarts>>
ledVars == <<leds, glow, script, previous, previousSet, call, written, steplog,
            reference, trace>>
vars == <<oscVars, now, ledVars>>

\* ------------------------------------------------------------- accumulators
EmptyAccumulator == [buf |-> <<>>, error |-> FALSE]

fill(acc, data, raises) ==
  [buf |-> Append(acc.buf, data), error |-> acc.error \/ raises]

hasError(acc) == acc.error

\* ------------------------------------------------------------------- events
\* A read and an end-of-packet are logged with listeningFor, as it stood when
\* they happened, in the text field.
Ev(op, addr, text, data, at) ==
  [op |-> op, addr |-> addr, text |-> text, data |-> data, at |-> at]

EmptyPacket ==
  [bytes |-> <<>>, nBundle |-> 0, nMessage |-> 0, complete |-> FALSE,
   kind |-> "BUNDLE_OR_MESSAGE_START", error |-> FALSE]

\* ------------------------------------------------------------ send helpers
\* the last two entries of a history
LastTwo(q) == IF Len(q) > 2 THEN SubSeq(q, Len(q) - 1, Len(q)) ELSE q

\* sendOSCMessage taking the time stamp after the delay
sendOSCMessageStampLast(s, address, text, data) ==
  [s EXCEPT !.ev = @ \o << Ev("beginPacket", address, "", <<>>, s.t),
                           Ev("send", address, text, data, s.t),
                           Ev("endPacket", address, "", <<>>, s.t),
                           Ev("msgEmpty", address, "", <<>>, s.t),
                           Ev("delay", "", "", <<MINIMUM_TIME_BETWEEN_OSC_SENDS>>, s.t),
                           Ev("stamp", "", "", <<>>,
                              s.t + MINIMUM_TIME_BETWEEN_OSC_SENDS) >>,
            !.ss = LastTwo(Append(@, s.t)),
            !.lst = s.t + MINIMUM_TIME_BETWEEN_OSC_SENDS,
            !.t = s.t + MINIMUM_TIME_BETWEEN_OSC_SENDS]

\* sendOSCMessage returning without the delay
sendOSCMessageNoDelay(s, address, text, data) ==
  [s EXCEPT !.ev = @ \o << Ev("beginPacket", address, "", <<>>, s.t),
                           Ev("send", address, text, data, s.t),
                           Ev("endPacket", address, "", <<>>, s.t),
                           Ev("msgEmpty", address, "", <<>>, s.t),
                           Ev("stamp", "", "", <<>>, s.t) >>,
            !.ss = LastTwo(Append(@, s.t)),
            !.lst = s.t]

\* lines 140-148
\* s is the running state of one operation: s.ev its log, s.t the clock,
\* s.lst last_OSC_send_time, s.ss the history of transmission starts.
sendOSCMessage(s, address, text, data) ==
  [s EXCEPT !.ev = @ \o << Ev("beginPacket", address, "", <<>>, s.t),
                           Ev("send", address, text, data, s.t),
                           Ev("endPacket", address, "", <<>>, s.t),
                           Ev("msgEmpty", address, "", <<>>, s.t),
                           Ev("stamp", "", "", <<>>, s.t),
                           Ev("delay", "", "", <<MINIMUM_TIME_BETWEEN_OSC_SENDS>>, s.t) >>,
            !.ss = LastTwo(Append(@, s.t)),
            !.lst = s.t,
            !.t = s.t + MINIMUM_TIME_BETWEEN_OSC_SENDS]

\* the helpers: text names the argument's type, or is the string sent
sendOSCFloat(s, address, value) == sendOSCMessage(s, address, "float", <<value>>)

sendOSCInt(s, address, value) == sendOSCMessage(s, address, "int", <<value>>)

sendOSCString(s, address, text, data) == sendOSCMessage(s, address, text, data)

sendOSCBool(s, address, value) ==
  sendOSCMessage(s, address, "bool", <<IF value THEN 1 ELSE 0>>)

sendOSCTrigger(s, address) == sendOSCMessage(s, address, "", <<>>)

\* ------------------------------------------------------------ built-in LED
flashBuiltInLED(s) ==
  [s EXCEPT !.ev = @ \o << Ev("digitalWrite", "", "", <<1>>, s.t),
                           Ev("delay", "", "", <<FLASH_MS>>, s.t),
                           Ev("digitalWrite", "", "", <<0>>, s.t + FLASH_MS) >>,
            !.t = s.t + FLASH_MS]

\* ------------------------------------------------------------ listenForOSC
\* SLIPSerial.endofPacket(): true when the reader stands at an end-of-packet
\* marker, which it consumes.
endofPacket(s) ==
  IF s.inb # <<>> /\ Head(s.inb) = SLIP_END
  THEN [s EXCEPT !.inb = Tail(@), !.eot = TRUE]
  ELSE [s EXCEPT !.eot = FALSE]

\* SLIPSerial.available(): a data byte is ready.
available(s) == s.inb # <<>> /\ Head(s.inb) # SLIP_END

\* ReportNeither without the second string
ReportNeitherOnce(s, data) ==
  sendOSCString(s, "/foobar/error",
                "OSC got start of neither bundle nor message!", <<>>)

\* lines 44-57: the peek at the first byte
ReportNeither(s, data) ==
  sendOSCString(
    sendOSCString(s, "/foobar/error",
                  "OSC got start of neither bundle nor message!", <<>>),
    "/foobar/error", "expected # (35) or / (47), got %c (%d)", <<data, data>>)

\* Classify with '/' taken for the start of a bundle
ClassifySlashAsBundle(s, data) ==
  IF s.lf = "BUNDLE_OR_MESSAGE_START"
  THEN IF data = HASH \/ data = SLASH THEN [s EXCEPT !.lf = "BUNDLE"]
       ELSE ReportNeither(s, data)
  ELSE s

Classify(s, data) ==
  IF s.lf = "BUNDLE_OR_MESSAGE_START"
  THEN IF data = HASH THEN [s EXCEPT !.lf = "BUNDLE"]
       ELSE IF data = SLASH THEN [s EXCEPT !.lf = "MESSAGE"]
       ELSE ReportNeither(s, data)
  ELSE s

\* lines 60-64: feed the live accumulator
Feed(s, data, raises) ==
  IF s.lf = "BUNDLE"
  THEN [s EXCEPT !.b = fill(@, data, raises),
                 !.ev = Append(@, Ev("bundleFill", "", "", <<data>>, s.t))]
  ELSE IF s.lf = "MESSAGE"
  THEN [s EXCEPT !.m = fill(@, data, raises),
                 !.ev = Append(@, Ev("messageFill", "", "", <<data>>, s.t))]
  ELSE s

\* LoopBody feeding the accumulator before the peek at the byte
LoopBodyFeedFirst(s, errs) ==
  LET data == Head(s.inb)
      r == [s EXCEPT !.inb = Tail(@), !.n = @ + 1,
                     !.ev = Append(@, Ev("read", "", s.lf, <<data>>, s.t)),
                     !.pk.bytes = Append(@, data)]
  IN endofPacket(Classify(Feed(r, data, errs[r.n]), data))

\* lines 39-66: one iteration of the while loop
LoopBody(s, errs) ==
  LET data == Head(s.inb)
      r == [s EXCEPT !.inb = Tail(@), !.n = @ + 1,
                     !.ev = Append(@, Ev("read", "", s.lf, <<data>>, s.t)),
                     !.pk.bytes = Append(@, data)]
  IN endofPacket(Feed(Classify(r, data), data, errs[r.n]))

\* ReadLoop without the test of eot
RECURSIVE ReadLoopIgnoringEOT(_, _)
ReadLoopIgnoringEOT(s, errs) ==
  IF available(s)
  THEN ReadLoopIgnoringEOT(
         LoopBody(s, [i \in 1 .. Len(inbuf) |-> i \in DOMAIN errs /\ errs[i]]), errs)
  ELSE s

\* line 39: while (SLIPSerial.available() && !eot)
RECURSIVE ReadLoop(_, _)
ReadLoop(s, errs) ==
  IF available(s) /\ ~s.eot THEN ReadLoop(LoopBody(s, errs), errs) ELSE s

dispatchBundleContents(s) ==
  [s EXCEPT !.ev = Append(@, Ev("dispatchBundleContents", "", "", s.b.buf, s.t)),
            !.pk.nBundle = @ + 1]

dispatchMessage(s) ==
  [s EXCEPT !.ev = Append(@, Ev("dispatchMessage", "", "", s.m.buf, s.t)),
            !.pk.nMessage = @ + 1]

bundleEmpty(s) ==
  [s EXCEPT !.b = EmptyAccumulator,
            !.ev = Append(@, Ev("bundleEmpty", "", "", <<>>, s.t))]

messageEmpty(s) ==
  [s EXCEPT !.m = EmptyAccumulator,
            !.ev = Append(@, Ev("messageEmpty", "", "", <<>>, s.t))]

ResetListening(s) == [s EXCEPT !.lf = "BUNDLE_OR_MESSAGE_START"]

\* BundleErrorBranch with the accumulator emptied before the dispatch
BundleErrorBranchEmptyFirst(s) ==
  ResetListening(dispatchBundleContents(bundleEmpty(flashBuiltInLED(s))))

\* lines 70-107
BundleErrorBranch(s) ==
  ResetListening(bundleEmpty(dispatchBundleContents(flashBuiltInLED(s))))

\* BundleBranch without bundleIN->empty()
BundleBranchNoEmpty(s) == ResetListening(dispatchBundleContents(s))

\* lines 109-117
BundleBranch(s) == ResetListening(bundleEmpty(dispatchBundleContents(s)))

\* MessageBranch without messageIN->empty()
MessageBranchNoEmpty(s) == ResetListening(dispatchMessage(s))

\* lines 119-128
MessageBranch(s) == ResetListening(messageEmpty(dispatchMessage(s)))

\* lines 69-131
HandleEOT(s) ==
  LET p == [s EXCEPT !.pk.complete = TRUE,
                     !.pk.kind = s.lf,
                     !.pk.error = (s.lf = "BUNDLE" /\ hasError(s.b))
                                    \/ (s.lf = "MESSAGE" /\ hasError(s.m)),
                     !.ev = Append(@, Ev("eot", "", s.lf, <<>>, s.t))]
  IN IF p.lf = "BUNDLE" /\ hasError(p.b) THEN BundleErrorBranch(p)
     ELSE IF p.lf = "BUNDLE" THEN BundleBranch(p)
     ELSE IF p.lf = "MESSAGE" THEN MessageBranch(p)
     ELSE p

\* Running with the accumulators and listeningFor created anew by each call
RunningNotStatic ==
  [lf |-> "BUNDLE_OR_MESSAGE_START", b |-> EmptyAccumulator,
   m |-> EmptyAccumulator, inb |-> inbuf,
   ev |-> <<>>, t |-> now, lst |-> last_OSC_send_time, eot |-> FALSE, n |-> 0,
   pk |-> packet, ss |-> sendStarts]

\* the state an operation starts from; its log starts empty
Running ==
  [lf |-> listeningFor, b |-> bundleIN, m |-> messageIN, inb |-> inbuf,
   ev |-> <<>>, t |-> now, lst |-> last_OSC_send_time, eot |-> FALSE, n |-> 0,
   pk |-> packet, ss |-> sendStarts]

\* Commit with last_OSC_receive_time stamped by an operation that read a byte
CommitStampReceive(s) ==
  /\ listeningFor' = s.lf
  /\ bundleIN' = s.b
  /\ messageIN' = s.m
  /\ inbuf' = s.inb
  /\ now' = s.t
  /\ last_OSC_send_time' = s.lst
  /\ events' = s.ev
  /\ packet' = s.pk
  /\ sendStarts' = s.ss
  /\ last_OSC_receive_time' = IF s.n > 0 THEN s.t ELSE last_OSC_receive_time
  /\ UNCHANGED ledVars

\* the statics and globals as the operation leaves them
Commit(s) ==
  /\ listeningFor' = s.lf
  /\ bundleIN' = s.b
  /\ messageIN' = s.m
  /\ inbuf' = s.inb
  /\ now' = s.t
  /\ last_OSC_send_time' = s.lst
  /\ events' = s.ev
  /\ packet' = s.pk
  /\ sendStarts' = s.ss
  /\ UNCHANGED <<last_OSC_receive_time, ledVars>>

listenForOSCRun(errs) ==
  LET s0 == [Running EXCEPT
                !.pk = IF packet.complete THEN EmptyPacket ELSE packet]
      s1 == ReadLoop(endofPacket(s0), errs)
  IN IF s1.eot THEN HandleEOT(s1) ELSE s1

\* the data bytes one call can read: those before the first end-of-packet
RECURSIVE Readable(_)
Readable(q) ==
  IF q = <<>> \/ Head(q) = SLIP_END THEN 0 ELSE 1 + Readable(Tail(q))

listenForOSC ==
  /\ now < MaxClock
  /\ \E errs \in [1..Readable(inbuf) -> BOOLEAN] : Commit(listenForOSCRun(errs))

\* --------------------------------------------- calls of the send helpers
Addresses == {"/action/40939"}
Values == {0, 1}
Strings == {"S&M_FXBYP3"}

CallSendOSCFloat ==
  /\ now < MaxClock
  /\ \E a \in Addresses, v \in Values : Commit(sendOSCFloat(Running, a, v))

CallSendOSCInt ==
  /\ now < MaxClock
  /\ \E a \in Addresses, v \in Values : Commit(sendOSCInt(Running, a, v))

CallSendOSCString ==
  /\ now < MaxClock
  /\ \E a \in Addresses, v \in Strings : Commit(sendOSCString(Running, a, v, <<>>))

CallSendOSCBool ==
  /\ now < MaxClock
  /\ \E a \in Addresses, v \in BOOLEAN : Commit(sendOSCBool(Running, a, v))

CallSendOSCTrigger ==
  /\ now < MaxClock
  /\ \E a \in Addresses : Commit(sendOSCTrigger(Running, a))

\* ------------------------------------------------- the serial line (input)
PendingBytes ==
  (IF packet.complete THEN 0 ELSE Len(packet.bytes))
    + Len(SelectSeq(inbuf, LAMBDA x : x # SLIP_END))

Arrive ==
  /\ Len(inbuf) < MaxInbuf
  /\ \E x \in Items :
       /\ (x # SLIP_END) => PendingBytes < MaxPacket
       /\ inbuf' = Append(inbuf, x)
  /\ UNCHANGED <<listeningFor, bundleIN, messageIN, now, last_OSC_send_time,
                 last_OSC_receive_time, events, packet, sendStarts, ledVars>>

\* an item arrives when the receive buffer has been read empty
ArriveOne ==
  /\ inbuf = <<>>
  /\ Arrive

\* time passes between the operations of the outer loop
ElapseSet == {25}

Elapse ==
  /\ \E d \in ElapseSet :
       /\ now + d <= MaxClock
       /\ now' = now + d
  /\ UNCHANGED <<oscVars, ledVars>>


\* ======================================================= StompboxLEDs.cpp
NUM_LEDS == 6
V_LAMP_IDLE == 128
V_FULL == 255
V_DIM == 45
V_OFF == 0
H_RED == 0
H_GREEN == 100
H_VINTAGE_LAMP == 50
S_VINTAGE_LAMP == 200
S_FULL == 255
time_between_sparkle_waves == 4000

LedIndex == 0 .. (NUM_LEDS - 1)

\* CHSV(hue, sat, val): three 8-bit channels
ToByte(x) == x % 256
CHSV(hue, sat, val) == [hue |-> ToByte(hue), sat |-> ToByte(sat), val |-> ToByte(val)]

Black == [hue |-> 0, sat |-> 0, val |-> 0]

NoGlow ==
  [active |-> FALSE, led |-> 0, hue |-> 0, sat |-> 0, val_from |-> 0,
   val_to |-> 0, slowness |-> 0, change_step |-> 0, j |-> 0]

LEv(op, led, val) == [op |-> op, led |-> led, val |-> val]

\* an entry of trace: pixel led was assigned the colour px
Wr(led, px) == [led |-> led, hue |-> px.hue, sat |-> px.sat, val |-> px.val]

NoCall ==
  [name |-> "none", done |-> TRUE, tStart |-> 0, nWrite |-> 0, nShow |-> 0,
   slept |-> 0, lamps |-> <<>>, before |-> [i \in LedIndex |-> Black],
   args |-> NoGlow, ref |-> 0]

\* a pixel write, counted in the history of the operation
WritePixel(c, led) ==
  [c EXCEPT !.nWrite = @ + 1,
            !.lamps = IF @ # <<>> /\ @[Len(@)] = led THEN @ ELSE Append(@, led)]

\* GlowCond with <= and >= for < and >
GlowCondInclusive(change_step, j, val_to) ==
  IF change_step > 0 THEN j <= val_to ELSE j >= val_to

\* GlowCond without the test of change_step's sign
GlowCondUnsigned(change_step, j, val_to) == j # val_to

\* GlowCond with <= for < when ascending
GlowCondUpInclusive(change_step, j, val_to) ==
  IF change_step > 0 THEN j <= val_to ELSE j > val_to

\* line 41: the loop condition of glowChange
GlowCond(change_step, j, val_to) ==
  IF change_step > 0 THEN j < val_to ELSE j > val_to

\* GlowInstant writing val_from for val_to
GlowInstantFrom(g, c, rest) ==
  /\ leds' = [leds EXCEPT ![g.led] = CHSV(g.hue, g.sat, g.val_from)]
  /\ trace' = Append(trace, Wr(g.led, CHSV(g.hue, g.sat, g.val_from)))
  /\ written' = <<g.val_from>>
  /\ steplog' = << LEv("write", g.led, g.val_from), LEv("show", g.led, 0) >>
  /\ call' = [WritePixel(c, g.led) EXCEPT !.nShow = @ + 1, !.done = (rest = <<>>)]
  /\ glow' = [g EXCEPT !.active = FALSE]

\* lines 35-39: change_step = 0
GlowInstant(g, c, rest) ==
  /\ leds' = [leds EXCEPT ![g.led] = CHSV(g.hue, g.sat, g.val_to)]
  /\ trace' = Append(trace, Wr(g.led, CHSV(g.hue, g.sat, g.val_to)))
  /\ written' = <<g.val_to>>
  /\ steplog' = << LEv("write", g.led, g.val_to), LEv("show", g.led, 0) >>
  /\ call' = [WritePixel(c, g.led) EXCEPT !.nShow = @ + 1, !.done = (rest = <<>>)]
  /\ glow' = [g EXCEPT !.active = FALSE]

\* lines 33-41: entry of glowChange with arguments g, called from an
\* operation with history c that has the statements rest left to run
GlowEnter(g, c, rest) ==
  /\ IF g.change_step = 0
     THEN GlowInstant(g, c, rest)
     ELSE /\ glow' = [g EXCEPT !.active = TRUE, !.j = g.val_from]
          /\ written' = <<>>
          /\ steplog' = <<>>
          /\ call' = c
          /\ leds' = leds
          /\ trace' = trace
  /\ script' = rest
  /\ now' = now

\* lines 42-44 and the j += change_step of line 41: one iteration
GlowStep ==
  /\ glow.active
  /\ GlowCond(glow.change_step, glow.j, glow.val_to)
  /\ leds' = [leds EXCEPT ![glow.led] = CHSV(glow.hue, glow.sat, glow.j)]
  /\ trace' = Append(trace, Wr(glow.led, CHSV(glow.hue, glow.sat, glow.j)))
  /\ written' = Append(written, ToByte(glow.j))
  /\ steplog' = << LEv("write", glow.led, ToByte(glow.j)), LEv("show", glow.led, 0),
                   LEv("delay", glow.led, glow.slowness) >>
  /\ call' = [WritePixel(call, glow.led) EXCEPT !.nShow = @ + 1,
                                                 !.slept = @ + glow.slowness]
  /\ now' = now + glow.slowness
  /\ glow' = [glow EXCEPT !.j = @ + glow.change_step]
  /\ UNCHANGED <<script, previous, previousSet, reference, oscVars>>

\* lines 41 and 46: the loop condition fails and glowChange returns
GlowReturn ==
  /\ glow.active
  /\ ~GlowCond(glow.change_step, glow.j, glow.val_to)
  /\ glow' = [glow EXCEPT !.active = FALSE]
  /\ steplog' = <<>>
  /\ call' = [call EXCEPT !.done = (script = <<>>)]
  /\ UNCHANGED <<leds, written, now, script, previous, previousSet, reference,
                 trace, oscVars>>

Idle == ~glow.active /\ script = <<>>

GlowArgs(led, hue, sat, val_from, val_to, slowness, change_step) ==
  [active |-> FALSE, led |-> led, hue |-> hue, sat |-> sat, val_from |-> val_from,
   val_to |-> val_to, slowness |-> slowness, change_step |-> change_step, j |-> 0]

NewCall(name, g) ==
  [name |-> name, done |-> FALSE, tStart |-> now, nWrite |-> 0, nShow |-> 0,
   slept |-> 0, lamps |-> <<>>, before |-> leds, args |-> g, ref |-> now]

\* ----------------------------------------------------- calls of glowChange
GlowLeds == {0, 3}
GlowHues == {H_VINTAGE_LAMP}
GlowSats == {S_VINTAGE_LAMP}
GlowVals == (0 .. MaxVal) \cup {V_FULL}
GlowSlowness == {0, MaxSlow}
GlowSteps == (-MaxStep) .. MaxStep

\* SpecGlow follows one call of glowChange from each state it starts in
CallGlowChange ==
  /\ Idle
  /\ call.name = "none"
  /\ \E led \in GlowLeds, hue \in GlowHues, sat \in GlowSats,
        val_from \in GlowVals, val_to \in GlowVals,
        slowness \in GlowSlowness, change_step \in GlowSteps :
       LET g == GlowArgs(led, hue, sat, val_from, val_to, slowness, change_step)
       IN GlowEnter(g, NewCall("glowChange", g), <<>>)
  /\ UNCHANGED <<previous, previousSet, reference, oscVars>>

\* lines 49-51
glowUp(led, hue, sat, val_from, val_to, slowness, change_step) ==
  [op |-> "glowChange", ms |-> 0,
   g |-> GlowArgs(led, hue, sat, val_from, val_to, slowness, change_step)]

\* lines 54-56
glowDown(led, hue, sat, val_from, val_to, slowness, change_step) ==
  [op |-> "glowChange", ms |-> 0,
   g |-> GlowArgs(led, hue, sat, val_from, val_to, slowness, change_step)]

delay(ms) == [op |-> "delay", ms |-> ms, g |-> NoGlow]

\* lines 138-141: the body of the sparkle loop for lamp i
Sparkle(i) ==
  << glowUp(i, H_VINTAGE_LAMP, S_VINTAGE_LAMP, V_LAMP_IDLE, V_FULL, 1, 8),
     delay(30),
     glowDown(i, H_VINTAGE_LAMP, S_VINTAGE_LAMP, V_FULL, V_LAMP_IDLE, 1, -8),
     delay(15) >>

\* lines 137-142: for (int i = 1; i < NUM_LEDS; i++)
RECURSIVE SparkleFrom(_)
SparkleFrom(i) == IF i < NUM_LEDS THEN Sparkle(i) \o SparkleFrom(i + 1) ELSE <<>>

\* the running lightshow calls glowChange
ScriptGlow ==
  /\ ~glow.active
  /\ script # <<>>
  /\ Head(script).op = "glowChange"
  /\ GlowEnter(Head(script).g, call, Tail(script))
  /\ UNCHANGED <<previous, previousSet, reference, oscVars>>

\* the running lightshow calls delay
ScriptDelay ==
  /\ ~glow.active
  /\ script # <<>>
  /\ Head(script).op = "delay"
  /\ now' = now + Head(script).ms
  /\ script' = Tail(script)
  /\ call' = [call EXCEPT !.slept = @ + Head(script).ms,
                          !.done = (Tail(script) = <<>>)]
  /\ steplog' = << LEv("delay", 0, Head(script).ms) >>
  /\ UNCHANGED <<leds, glow, written, previous, previousSet, reference, trace,
                 oscVars>>

\* lines 103-104: one pixel is assigned and the buffer pushed
setAndShow(led, hue, sat, val) ==
  [op |-> "set", ms |-> 0, g |-> GlowArgs(led, hue, sat, val, val, 0, 0)]

\* the running lightshow assigns a pixel and calls FastLED.show()
ScriptSet ==
  /\ ~glow.active
  /\ script # <<>>
  /\ Head(script).op = "set"
  /\ LET g == Head(script).g
         px == CHSV(g.hue, g.sat, g.val_to)
     IN /\ leds' = [leds EXCEPT ![g.led] = px]
        /\ trace' = Append(trace, Wr(g.led, px))
        /\ steplog' = << LEv("write", g.led, px.val), LEv("show", g.led, 0) >>
        /\ call' = [WritePixel(call, g.led) EXCEPT !.nShow = @ + 1,
                                                 !.done = (Tail(script) = <<>>)]
  /\ script' = Tail(script)
  /\ UNCHANGED <<glow, written, now, previous, previousSet, reference, oscVars>>

\* lines 69-71: for (int i = 1; i < NUM_LEDS; i++) glowUp(...)
RECURSIVE StartupGlowOnFrom(_)
StartupGlowOnFrom(i) ==
  IF i < NUM_LEDS
  THEN << glowUp(i, H_VINTAGE_LAMP, S_VINTAGE_LAMP, V_OFF, V_LAMP_IDLE, 2, 1) >>
         \o StartupGlowOnFrom(i + 1)
  ELSE <<>>

\* lines 83-88: the sparkle loop of startupLightshow
RECURSIVE StartupSparkleFrom(_)
StartupSparkleFrom(i) ==
  IF i < NUM_LEDS
  THEN << glowUp(i, H_VINTAGE_LAMP, S_VINTAGE_LAMP, V_LAMP_IDLE, V_FULL, 1, 8),
          delay(30),
          glowDown(i, H_VINTAGE_LAMP, S_VINTAGE_LAMP, V_FULL, V_LAMP_IDLE, 1, -8),
          delay(15) >> \o StartupSparkleFrom(i + 1)
  ELSE <<>>

\* lines 68-88: startupLightshow after "begin dark"
StartupScript ==
  StartupGlowOnFrom(1)
    \o << glowUp(0, H_RED, S_FULL, V_OFF, V_FULL, 3, 1),
          delay(300),
          glowDown(0, H_RED, S_FULL, V_FULL, V_DIM, 4, -1),
          delay(700) >>
    \o StartupSparkleFrom(1)

\* lines 62-65: begin dark
BeginDark ==
  [i \in LedIndex |-> IF i = 0 THEN CHSV(H_RED, S_FULL, V_OFF)
                      ELSE CHSV(H_VINTAGE_LAMP, S_VINTAGE_LAMP, V_OFF)]

\* lines 59-91: the call assigns every pixel, pushes once (line 66), and goes on to
\* the glows
startupLightshow ==
  /\ Idle
  /\ call.name = "none"
  /\ leds' = BeginDark
  /\ trace' = [i \in 1 .. NUM_LEDS |-> Wr(i - 1, BeginDark[i - 1])]
  /\ steplog' = [i \in 1 .. NUM_LEDS |-> LEv("write", i - 1, V_OFF)]
                  \o << LEv("show", 0, 0) >>
  /\ call' = [NewCall("startupLightshow", NoGlow) EXCEPT
                !.nWrite = NUM_LEDS, !.nShow = 1, !.lamps = <<0, 1, 2, 3, 4, 5>>]
  /\ script' = StartupScript
  /\ written' = <<>>
  /\ UNCHANGED <<glow, now, previous, previousSet, reference, oscVars>>

\* lines 97-99: each lamp dims
RECURSIVE HibernateDimFrom(_)
HibernateDimFrom(i) ==
  IF i < NUM_LEDS
  THEN << glowDown(i, H_VINTAGE_LAMP, S_VINTAGE_LAMP, V_LAMP_IDLE, V_DIM, 2, -1) >>
         \o HibernateDimFrom(i + 1)
  ELSE <<>>

\* lines 102-106: each lamp goes out
RECURSIVE HibernateOutFrom(_)
HibernateOutFrom(i) ==
  IF i < NUM_LEDS
  THEN << setAndShow(i, H_VINTAGE_LAMP, S_VINTAGE_LAMP, V_OFF), delay(100) >>
         \o HibernateOutFrom(i + 1)
  ELSE <<>>

\* lines 96-120
HibernateScript ==
  HibernateDimFrom(1)
    \o HibernateOutFrom(1)
    \o << glowDown(0, H_RED, S_FULL, V_DIM, V_OFF, 4, -1),
          delay(200),
          glowUp(0, H_GREEN, S_FULL, V_DIM, V_FULL, 3, 1),
          delay(300),
          glowDown(0, H_GREEN, S_FULL, V_FULL, V_DIM, 3, -1),
          delay(700) >>

\* lines 94-121: called on a dark display or after the startup lightshow
hibernateLightshow ==
  /\ Idle
  /\ call.name \in {"none", "startupLightshow"}
  /\ call' = NewCall("hibernateLightshow", NoGlow)
  /\ script' = HibernateScript
  /\ trace' = <<>>
  /\ written' = <<>>
  /\ steplog' = <<>>
  /\ UNCHANGED <<leds, glow, now, previous, previousSet, reference, oscVars>>

\* lines 127-134: whether the call returns at once, and the new previous
IdleElapsed(prev, current) == current - prev

\* IdleReturnsEarly with <= for <
IdleReturnsEarlyInclusive(elapsed) == elapsed <= time_between_sparkle_waves

IdleReturnsEarly(elapsed) == elapsed < time_between_sparkle_waves

IdlePrevious(prev, current) ==
  IF IdleReturnsEarly(IdleElapsed(prev, current)) THEN prev ELSE current

\* lines 124-145.  The clock is capped far below 2^32, so the unsigned
\* subtraction of line 130 does not wrap.
idleAnimation ==
  /\ Idle
  /\ now < MaxLedClock
  /\ LET prev == IF previousSet THEN previous ELSE now
         current == now
         early == IdleReturnsEarly(IdleElapsed(prev, current))
         c == [NewCall("idleAnimation", NoGlow) EXCEPT
                 !.ref = IF reference.set THEN reference.at ELSE now]
     IN /\ previousSet' = TRUE
        /\ previous' = IdlePrevious(prev, current)
        /\ script' = IF early THEN <<>> ELSE SparkleFrom(1)
        /\ call' = [c EXCEPT !.done = early]
        /\ reference' = [set |-> TRUE,
                         at |-> IF ~reference.set \/ ~early THEN now
                                ELSE reference.at]
  /\ written' = <<>>
  /\ steplog' = <<>>
  /\ trace' = <<>>
  /\ UNCHANGED <<leds, glow, now, oscVars>>

\* time passes between the calls of the outer loop
TickSet == {1000, 2999, 3000}

Tick ==
  /\ Idle
  /\ \E d \in TickSet :
       /\ now + d <= MaxLedClock
       /\ now' = now + d
  /\ UNCHANGED <<oscVars, ledVars>>

\* ------------------------------------------------------------------- setup
setupOSC ==
  /\ last_OSC_send_time = 0
  /\ last_OSC_receive_time = last_OSC_send_time

InitOSC ==
  /\ listeningFor = "BUNDLE_OR_MESSAGE_START"
  /\ bundleIN = EmptyAccumulator
  /\ messageIN = EmptyAccumulator
  /\ inbuf = <<>>
  /\ now = 0
  /\ setupOSC
  /\ events = <<>>
  /\ packet = EmptyPacket
  /\ sendStarts = <<>>

\* line 16: the global CRGB array is zero-initialised
AllBlack == [i \in LedIndex |-> Black]

InitLEDs ==
  /\ glow = NoGlow
  /\ script = <<>>
  /\ previous = 0
  /\ previousSet = FALSE
  /\ call = NoCall
  /\ written = <<>>
  /\ steplog = <<>>
  /\ reference = [set |-> FALSE, at |-> 0]
  /\ trace = <<>>

Init == InitOSC /\ InitLEDs /\ leds = AllBlack

Next ==
  \/ Arrive
  \/ listenForOSC

Spec == Init /\ [][Next]_vars

\* glowChange alone, called with every combination of small arguments
NextGlow ==
  \/ CallGlowChange
  \/ GlowStep
  \/ GlowReturn

\* the display as the program starts, and as the lamps idle
AllIdle == [i \in LedIndex |-> CHSV(H_VINTAGE_LAMP, S_VINTAGE_LAMP, V_LAMP_IDLE)]

InitGlow == InitOSC /\ InitLEDs /\ leds \in {AllBlack, AllIdle}

SpecGlow == InitGlow /\ [][NextGlow]_vars

\* idleAnimation called from the outer loop as time passes
NextIdle ==
  \/ idleAnimation
  \/ ScriptGlow
  \/ ScriptDelay
  \/ GlowStep
  \/ GlowReturn
  \/ Tick

SpecIdle == Init /\ [][NextIdle]_vars

\* the send helpers called from the outer loop, between calls of listenForOSC
\* that read a line on which one item arrives at a time
NextSend ==
  \/ CallSendOSCFloat
  \/ CallSendOSCInt
  \/ CallSendOSCString
  \/ CallSendOSCBool
  \/ CallSendOSCTrigger
  \/ ArriveOne
  \/ listenForOSC
  \/ Elapse

SpecSend == Init /\ [][NextSend]_vars

\* the lightshows, run statement by statement
NextShow ==
  \/ startupLightshow
  \/ hibernateLightshow
  \/ ScriptSet
  \/ ScriptGlow
  \/ ScriptDelay
  \/ GlowStep
  \/ GlowReturn

SpecShow == Init /\ [][NextShow]_vars


\* ================================================================ claims
Ops(ops) == {i \in DOMAIN events : events[i].op \in ops}

Dispatches == {"dispatchBundleContents", "dispatchMessage"}

\* C1: a completed packet that begins with '#' and whose bundle accumulator
\* reports no error has caused exactly one dispatchBundleContents and no
\* dispatchMessage; one that begins with '/' and whose message accumulator
\* reports no error exactly one dispatchMessage and no dispatchBundleContents.
C1_FramingDispatch ==
  (packet.complete /\ packet.bytes # <<>> /\ ~packet.error) =>
    /\ (packet.bytes[1] = HASH) =>
         /\ packet.nBundle = 1 /\ packet.nMessage = 0
         /\ Cardinality(Ops({"dispatchBundleContents"})) = 1
         /\ Ops({"dispatchMessage"}) = {}
    /\ (packet.bytes[1] = SLASH) =>
         /\ packet.nMessage = 1 /\ packet.nBundle = 0
         /\ Cardinality(Ops({"dispatchMessage"})) = 1
         /\ Ops({"dispatchBundleContents"}) = {}

C1_Witness ==
  /\ packet.complete /\ ~packet.error
  /\ Len(packet.bytes) >= 2 /\ packet.bytes[1] = HASH
  /\ packet.nBundle = 1

\* the log of the last call, from a byte read in BUNDLE_OR_MESSAGE_START that
\* is neither '#' nor '/' up to the next read or end-of-packet
Unrecognised == {i \in Ops({"read"}) :
                   /\ events[i].text = "BUNDLE_OR_MESSAGE_START"
                   /\ events[i].data[1] \notin {HASH, SLASH}}

Boundary(i) ==
  LET later == {k \in Ops({"read", "eot"}) : k > i}
  IN IF later = {} THEN Len(events) + 1
     ELSE CHOOSE k \in later : \A m \in later : k <= m

Handling(i) == (i + 1) .. (Boundary(i) - 1)

StaysAwaitingStart(i) ==
  /\ Ops(Dispatches \cup {"bundleFill", "messageFill"}) \cap Handling(i) = {}
  /\ IF Boundary(i) <= Len(events)
     THEN events[Boundary(i)].text = "BUNDLE_OR_MESSAGE_START"
     ELSE listeningFor = "BUNDLE_OR_MESSAGE_START"

\* C2 as stated: a byte read in BUNDLE_OR_MESSAGE_START that is neither '#'
\* nor '/' produces exactly one outbound diagnostic send, no dispatch and no
\* fill, and leaves listeningFor at BUNDLE_OR_MESSAGE_START.
C2_OneDiagnosticSend ==
  \A i \in Unrecognised :
    /\ Cardinality(Ops({"send"}) \cap Handling(i)) = 1
    /\ StaysAwaitingStart(i)

\* C2 amended: such a byte produces exactly two outbound sends, both strings
\* to /foobar/error, no dispatch and no fill, and leaves listeningFor at
\* BUNDLE_OR_MESSAGE_START.
C2_TwoDiagnosticSends ==
  \A i \in Unrecognised :
    /\ Cardinality(Ops({"send"}) \cap Handling(i)) = 2
    /\ \A k \in Ops({"send"}) \cap Handling(i) : events[k].addr = "/foobar/error"
    /\ StaysAwaitingStart(i)

C2_Witness ==
  /\ Unrecognised # {}
  /\ \E i \in Unrecognised : Boundary(i) <= Len(events) /\ events[Boundary(i)].op = "read"

\* C3: once the end-of-packet of any packet has been handled, listeningFor is
\* BUNDLE_OR_MESSAGE_START and both accumulators are empty, until the next call
\* reads on.
C3_ResetAfterPacket ==
  packet.complete =>
    /\ listeningFor = "BUNDLE_OR_MESSAGE_START"
    /\ bundleIN = EmptyAccumulator
    /\ messageIN = EmptyAccumulator

C3_Witness ==
  /\ packet.complete /\ packet.error /\ packet.kind = "MESSAGE"
  /\ Len(packet.bytes) >= 2

FlashedBeforeDispatch ==
  \E i \in Ops({"digitalWrite"}) : \E k \in Ops(Dispatches) : i < k

\* C4: when end-of-packet is reached and the live accumulator, bundle or
\* message, reports a decode error, the built-in LED is flashed before the
\* accumulator is dispatched.
C4_FlashOnAnyDecodeError ==
  (packet.complete /\ packet.error) => FlashedBeforeDispatch

\* the bytes the live accumulator has been fed: the packet from its first
\* '#' or '/' on
RECURSIVE FromClassifier(_)
FromClassifier(bytes) ==
  IF bytes = <<>> \/ Head(bytes) \in {HASH, SLASH} THEN bytes
  ELSE FromClassifier(Tail(bytes))

C6_DecodeErrorReported ==
  (packet.complete /\ packet.error) =>
    \E e \in Ops({"eot"}) : \E k \in Ops({"send"}) :
      e < k /\ events[k].addr = "/foobar/error"


\* ------------------------------------------------------------ glowChange
GlowCalled == call.name = "glowChange"

Matched(g) ==
  \/ g.change_step > 0 /\ g.val_from < g.val_to
  \/ g.change_step < 0 /\ g.val_from > g.val_to

Mismatched(g) ==
  \/ g.change_step > 0 /\ g.val_from > g.val_to
  \/ g.change_step < 0 /\ g.val_from < g.val_to

OthersUntouched(led) == \A i \in LedIndex \ {led} : leds[i] = call.before[i]

\* C7: a call of glowChange with change_step = 0 makes exactly one
\* FastLED.show, takes no delay, and on return pixel led holds
\* (hue, sat, val_to).
C7_InstantGlow ==
  (GlowCalled /\ call.args.change_step = 0 /\ call.done) =>
    /\ call.nShow = 1
    /\ call.nWrite = 1
    /\ call.slept = 0 /\ now = call.tStart
    /\ leds[call.args.led] = [hue |-> call.args.hue, sat |-> call.args.sat,
                              val |-> call.args.val_to]
    /\ steplog = << LEv("write", call.args.led, call.args.val_to),
                    LEv("show", call.args.led, 0) >>
    /\ OthersUntouched(call.args.led)

C7_Witness ==
  /\ GlowCalled /\ call.done /\ call.args.change_step = 0
  /\ call.args.val_from # call.args.val_to
  /\ call.args.slowness > 0
  /\ leds[call.args.led] # call.before[call.args.led]

Abs(x) == IF x < 0 THEN -x ELSE x

\* the values from + k*step, k >= 0, within the bytes and one step beyond
Reachable(g) ==
  {v \in (0 - Abs(g.change_step)) .. (255 + Abs(g.change_step)) :
     \E k \in 0 .. 255 : v = g.val_from + k * g.change_step}

Extreme(S, up) ==
  CHOOSE v \in S : \A w \in S : IF up THEN w <= v ELSE w >= v

\* the final value C8 names: the furthest reachable value that does not
\* overshoot val_to by more than |change_step| - 1
ClaimedFinal(g) ==
  IF g.change_step > 0
  THEN Extreme({v \in Reachable(g) : v <= g.val_to + (g.change_step - 1)}, TRUE)
  ELSE Extreme({v \in Reachable(g) : v >= g.val_to - (Abs(g.change_step) - 1)}, FALSE)

\* the furthest reachable value strictly short of val_to
ShortFinal(g) ==
  IF g.change_step > 0
  THEN Extreme({v \in Reachable(g) : v < g.val_to}, TRUE)
  ELSE Extreme({v \in Reachable(g) : v > g.val_to}, FALSE)

StepsByChangeStep(g) ==
  /\ written # <<>> => written[1] = g.val_from
  /\ \A i \in 1 .. (Len(written) - 1) :
       /\ written[i + 1] = written[i] + g.change_step
       /\ IF g.change_step > 0 THEN written[i + 1] > written[i]
          ELSE written[i + 1] < written[i]

EachWritePushed ==
  /\ call.nShow = call.nWrite
  /\ call.nWrite = Len(written)
  /\ steplog # <<>> =>
       /\ steplog[1] = LEv("write", call.args.led, written[Len(written)])
       /\ steplog[2] = LEv("show", call.args.led, 0)
       /\ Len(SelectSeq(steplog, LAMBDA e : e.op = "show")) = 1

\* C8 as stated: with a nonzero change_step whose sign matches val_to -
\* val_from, the written values are strictly monotonic in the direction of
\* change_step, each write is followed by one push, and the final written
\* value is the furthest val_from + k*change_step that does not overshoot
\* val_to by more than |change_step| - 1.
C8_FinalWithinOvershoot ==
  (GlowCalled /\ Matched(call.args)) =>
    /\ StepsByChangeStep(call.args)
    /\ EachWritePushed
    /\ call.done => (written # <<>> /\ written[Len(written)] = ClaimedFinal(call.args))

\* C8 amended: with a nonzero change_step whose sign matches val_to -
\* val_from, the written values start at val_from and are strictly monotonic
\* in the direction of change_step, each write is followed by one push, and
\* the final written value is the furthest val_from + k*change_step strictly
\* short of val_to: it falls short of val_to by 1 to |change_step|, and val_to
\* itself is never written.
C8_FinalShortOfTarget ==
  (GlowCalled /\ Matched(call.args)) =>
    /\ StepsByChangeStep(call.args)
    /\ EachWritePushed
    /\ \A i \in DOMAIN written : written[i] # call.args.val_to
    /\ call.done =>
         /\ written # <<>>
         /\ written[Len(written)] = ShortFinal(call.args)
         /\ Abs(call.args.val_to - written[Len(written)]) \in 1 .. Abs(call.args.change_step)
         /\ leds[call.args.led].val = written[Len(written)]

C8_Witness ==
  /\ GlowCalled /\ call.done /\ Matched(call.args)
  /\ call.args.change_step = -2
  /\ Len(written) >= 2
  /\ Abs(call.args.val_to - written[Len(written)]) = 2

\* C9 as stated: a call with a nonzero change_step whose sign does not match
\* the direction from val_from to val_to never returns.
C9_MismatchNeverReturns ==
  (GlowCalled /\ Mismatched(call.args)) => ~call.done

\* C9 amended: such a call returns at once: the loop condition fails on its
\* first test, so it writes no pixel, pushes nothing and takes no delay.
C9_MismatchReturnsAtOnce ==
  (GlowCalled /\ Mismatched(call.args)) =>
    /\ written = <<>>
    /\ call.nWrite = 0 /\ call.nShow = 0 /\ call.slept = 0
    /\ leds = call.before
    /\ now = call.tStart
    /\ glow.active => (glow.j = call.args.val_from /\ ENABLED GlowReturn)
    /\ ~glow.active => call.done

C9_Witness ==
  /\ GlowCalled /\ Mismatched(call.args) /\ call.done
  /\ call.args.change_step > 0

\* ---------------------------------------------------------- idleAnimation
IdleCalled == call.name = "idleAnimation"

SinceReference == call.tStart - call.ref

FullRipple ==
  /\ call.lamps = <<1, 2, 3, 4, 5>>
  /\ call.nWrite = 160 /\ call.nShow = 160
  /\ \A i \in 1 .. 5 : leds[i] = CHSV(H_VINTAGE_LAMP, S_VINTAGE_LAMP, 135)
  /\ leds[0] = call.before[0]

\* C10: a call of idleAnimation made less than 4000 ms after the reference
\* time (its first call, or the start of the last ripple) writes no pixel and
\* pushes nothing; the first call made 4000 ms or more after it runs the
\* ripple over lamps 1..5.
C10_IdleRateLimit ==
  IdleCalled =>
    /\ (SinceReference < 4000) =>
         /\ call.done
         /\ call.nWrite = 0 /\ call.nShow = 0
         /\ leds = call.before
         /\ script = <<>>
    /\ (SinceReference >= 4000) =>
         /\ ~call.done => (glow.active \/ script # <<>>)
         /\ call.done => FullRipple

C10_Witness ==
  /\ IdleCalled /\ call.done /\ SinceReference = 4000
  /\ FullRipple

\* ---------------------------------------------------------------- C11
Sends == Ops({"send"})

\* C11: of any two consecutive transmissions, made by any send helper or by
\* the diagnostic sends of listenForOSC, the second begins at least
\* MINIMUM_TIME_BETWEEN_OSC_SENDS (10 ms) after the first began; and every
\* transmission of the operation just run began when the log says it did.
C11_SendSpacing ==
  /\ (Len(sendStarts) = 2) =>
       sendStarts[2] - sendStarts[1] >= MINIMUM_TIME_BETWEEN_OSC_SENDS
  /\ (Sends # {}) =>
       /\ sendStarts # <<>>
       /\ sendStarts[Len(sendStarts)] =
            events[CHOOSE i \in Sends : \A k \in Sends : k <= i].at

\* a helper's send follows the second diagnostic send of an earlier
\* listenForOSC after exactly 10 ms, and another follows a pause
C11_Witness ==
  /\ Len(sendStarts) = 2
  /\ sendStarts[2] - sendStarts[1] = MINIMUM_TIME_BETWEEN_OSC_SENDS
  /\ Cardinality(Sends) = 1
  /\ events[1].op = "beginPacket" /\ events[1].addr \in Addresses
  /\ listeningFor = "BUNDLE_OR_MESSAGE_START" /\ packet.bytes = <<33>>

\* ---------------------------------------------------------------- C12
\* the items up to and including the first end-of-packet, or all of them
RECURSIVE FirstPacket(_)
FirstPacket(q) ==
  IF q = <<>> THEN <<>>
  ELSE IF Head(q) = SLIP_END THEN <<SLIP_END>>
  ELSE <<Head(q)>> \o FirstPacket(Tail(q))

DataOf(q) == SelectSeq(q, LAMBDA x : x # SLIP_END)

\* the bytes the operation just run has read, in order
RECURSIVE ReadsFrom(_, _)
ReadsFrom(log, i) ==
  IF i > Len(log) THEN <<>>
  ELSE (IF log[i].op = "read" THEN log[i].data ELSE <<>>) \o ReadsFrom(log, i + 1)

\* C12: a call of listenForOSC (a step that does not lengthen the receive
\* buffer) takes from the buffer exactly the items that were there up to and
\* including the first end-of-packet, or all of them when there is none; it
\* reads the data bytes among them in order, sees at most one end-of-packet,
\* dispatches at most once, and leaves the rest of the buffer as it was.
C12_BoundedCall ==
  [][ (Len(inbuf') <= Len(inbuf)) =>
        /\ inbuf = FirstPacket(inbuf) \o inbuf'
        /\ ReadsFrom(events', 1) = DataOf(FirstPacket(inbuf))
        /\ Cardinality(Ops({"eot"})') = Len(FirstPacket(inbuf)) - Len(DataOf(FirstPacket(inbuf)))
        /\ Cardinality(Ops(Dispatches)') <= 1
        /\ Cardinality(Ops(Dispatches)') = 1 => Cardinality(Ops({"eot"})') = 1
    ]_vars

\* a call has read a packet and dispatched it, and a byte of the next packet
\* is still in the buffer
C12_Witness ==
  /\ Cardinality(Ops(Dispatches)) = 1
  /\ Cardinality(Ops({"read"})) = 2
  /\ inbuf # <<>> /\ Head(inbuf) # SLIP_END

\* ---------------------------------------------------------------- C13
\* C13: at most one accumulator is non-empty, and it is the one named by
\* listeningFor: listening for a bundle's bytes the message accumulator is
\* empty, listening for a message's bytes the bundle accumulator is empty,
\* and awaiting a start both are empty.
C13_OneLiveAccumulator ==
  /\ (listeningFor = "BUNDLE") => messageIN = EmptyAccumulator
  /\ (listeningFor = "MESSAGE") => bundleIN = EmptyAccumulator
  /\ (listeningFor = "BUNDLE_OR_MESSAGE_START") =>
       bundleIN = EmptyAccumulator /\ messageIN = EmptyAccumulator
  /\ bundleIN.buf = <<>> \/ messageIN.buf = <<>>

\* the start of a bundle has been accumulated with an error raised, while a
\* complete message waits behind it
C13_Witness ==
  /\ listeningFor = "BUNDLE"
  /\ bundleIN.buf = <<HASH>> /\ bundleIN.error
  /\ messageIN = EmptyAccumulator
  /\ inbuf = <<SLIP_END, SLASH, SLIP_END>>

\* ---------------------------------------------------------------- C14
Lamps == 1 .. (NUM_LEDS - 1)

StartupReturned == call.name = "startupLightshow" /\ call.done

WrittenAt(led, val) == \E k \in DOMAIN trace : trace[k].led = led /\ trace[k].val = val

\* C14: when startupLightshow has returned, every lamp pixel 1..5 has been
\* written at value V_FULL (255) and holds value V_LAMP_IDLE (128), and the
\* record pixel 0 holds hue red at value V_DIM (45).
C14_StartupEndsAtIdle ==
  StartupReturned =>
    /\ \A i \in Lamps : WrittenAt(i, V_FULL)
    /\ \A i \in Lamps : leds[i].val = V_LAMP_IDLE
    /\ leds[0].hue = H_RED /\ leds[0].val = V_DIM

\* ---------------------------------------------------------------- C15
HibernateCalled == call.name = "hibernateLightshow"

GreenWrites == {k \in DOMAIN trace : trace[k].led = 0 /\ trace[k].hue = H_GREEN}

\* the record pixel is written at value 0 at k, after every lamp was
DarkAfterLampsOut(k) ==
  /\ trace[k].led = 0 /\ trace[k].val = V_OFF
  /\ \A i \in Lamps : \E m \in 1 .. (k - 1) : trace[m].led = i /\ trace[m].val = V_OFF

\* C15: in hibernateLightshow, a write of a green value to the record pixel
\* comes only after the record pixel was written (and pushed) at value 0,
\* which itself came after every lamp 1..5 was written at value 0; and when
\* the call has returned the record pixel has been written green at 255 and
\* holds green at V_DIM (45), and every lamp holds value 0.
C15_HibernateDarkThenGreen ==
  HibernateCalled =>
    /\ \A g \in GreenWrites : \E k \in 1 .. (g - 1) : DarkAfterLampsOut(k)
    /\ call.done =>
         /\ \E g \in GreenWrites : trace[g].val = V_FULL
         /\ leds[0] = CHSV(H_GREEN, S_FULL, V_DIM)
         /\ \A i \in Lamps : leds[i].val = V_OFF

\* ---------------------------------------------------------------- C16
SendSteps == <<"beginPacket", "send", "endPacket", "msgEmpty", "stamp", "delay">>

\* the six steps of one send start at i of the log, in order
SendAt(i) ==
  /\ i + 5 <= Len(events)
  /\ \A k \in 1 .. 6 : events[i + k - 1].op = SendSteps[k]
  /\ \A k \in 1 .. 3 : events[i + k].addr = events[i].addr
  /\ events[i + 4].at = events[i].at
  /\ events[i + 5].data = <<MINIMUM_TIME_BETWEEN_OSC_SENDS>>

\* a send helper was the operation just run
HelperReturned == events # <<>> /\ events[1].op = "beginPacket"

\* C16: every send in the log of an operation is the six steps begin-packet,
\* message bytes, end-packet, discard, time stamp, 10 ms delay, in that order
\* and once each; a helper's log is exactly one such send, its stamp is the
\* clock as the stamp was taken and is now last_OSC_send_time, which is at
\* least 10 ms behind the clock; and no step decreases last_OSC_send_time.
C16_SendSequence ==
  /\ [](/\ \A i \in Ops({"beginPacket"}) : SendAt(i)
        /\ \A k \in 2 .. 5 :
             Cardinality(Ops({SendSteps[k]})) = Cardinality(Ops({"beginPacket"}))
        /\ HelperReturned =>
             /\ Len(events) = 6
             /\ last_OSC_send_time = events[5].at
             /\ now - last_OSC_send_time >= MINIMUM_TIME_BETWEEN_OSC_SENDS)
  /\ [][last_OSC_send_time' >= last_OSC_send_time]_vars

\* sendOSCFloat has returned, called 25 ms or more after setupOSC
C16_Witness ==
  /\ HelperReturned
  /\ events[2].text = "float" /\ events[2].data = <<1>>
  /\ last_OSC_send_time >= 25
  /\ now = last_OSC_send_time + MINIMUM_TIME_BETWEEN_OSC_SENDS

\* ---------------------------------------------------------------- C17
\* the dispatches of a log: which callback, with which accumulated bytes
RECURSIVE DispatchSeq(_)
DispatchSeq(log) ==
  IF log = <<>> THEN <<>>
  ELSE (IF Head(log).op \in Dispatches
        THEN << <<Head(log).op, Head(log).data>> >> ELSE <<>>)
       \o DispatchSeq(Tail(log))

\* one call of listenForOSC, made awaiting a start with both accumulators
\* empty, that finds the whole packet and its end-of-packet in the buffer
DeliveredWhole(bytes) ==
  LET s0 == [Running EXCEPT !.lf = "BUNDLE_OR_MESSAGE_START",
                            !.b = EmptyAccumulator, !.m = EmptyAccumulator,
                            !.inb = Append(bytes, SLIP_END),
                            !.pk = EmptyPacket]
      s1 == ReadLoop(endofPacket(s0), [i \in 1 .. Len(bytes) |-> FALSE])
  IN IF s1.eot THEN HandleEOT(s1) ELSE s1

\* C17: when a packet is complete, however its bytes were split over the
\* calls of listenForOSC that read it, the dispatches made for it (all in
\* the call that saw its end-of-packet) are those that one call reading the
\* whole packet makes: the same callbacks with the same accumulated bytes.
C17_ChunkingIndependent ==
  packet.complete =>
    /\ DispatchSeq(events) = DispatchSeq(DeliveredWhole(packet.bytes).ev)
    /\ packet.nBundle + packet.nMessage = Len(DispatchSeq(events))

\* a two-byte bundle is dispatched by a call that read none of its bytes:
\* they were read by earlier calls
C17_Witness ==
  /\ packet.complete /\ packet.bytes = <<HASH, SLASH>>
  /\ Ops({"read"}) = {}
  /\ DispatchSeq(events) = << <<"dispatchBundleContents", <<HASH, SLASH>> >> >>

\* ---------------------------------------------------------------- C18
\* the bytes the operation just run has fed to an accumulator, in order
RECURSIVE FedIn(_)
FedIn(log) ==
  IF log = <<>> THEN <<>>
  ELSE (IF Head(log).op \in {"bundleFill", "messageFill"} THEN Head(log).data
        ELSE <<>>) \o FedIn(Tail(log))

IsSuffix(q, r) == Len(q) <= Len(r) /\ q = SubSeq(r, Len(r) - Len(q) + 1, Len(r))

\* C18: the bytes fed for a packet are its bytes from the first '#' or '/'
\* onward, that byte included, and nothing else: while the packet is being
\* read they are what the accumulators hold, when it is complete they are
\* what was dispatched, and the fills of the last call are the end of them;
\* a packet without '#' or '/' is fed to no accumulator and not dispatched.
C18_FedFromClassifier ==
  /\ ~packet.complete =>
       /\ bundleIN.buf \o messageIN.buf = FromClassifier(packet.bytes)
       /\ IsSuffix(FedIn(events), FromClassifier(packet.bytes))
  /\ packet.complete =>
       /\ IsSuffix(FedIn(events), FromClassifier(packet.bytes))
       /\ \A d \in Ops(Dispatches) : events[d].data = FromClassifier(packet.bytes)
       /\ (FromClassifier(packet.bytes) = <<>>) <=> (Ops(Dispatches) = {})
       /\ (FromClassifier(packet.bytes) = <<>>) => FedIn(events) = <<>>

\* a packet whose second byte is its '#': one call read it whole, fed only
\* the '#', and dispatched that as a bundle
C18_Witness ==
  /\ packet.complete /\ packet.bytes = <<33, HASH>>
  /\ FedIn(events) = <<HASH>>
  /\ DispatchSeq(events) = << <<"dispatchBundleContents", <<HASH>> >> >>

\* ---------------------------------------------------------------- C19
\* C19: last_OSC_receive_time holds the value setupOSC gave it (the clock
\* at setup, 0, which is also what last_OSC_send_time was given) in every
\* state reached by calls of listenForOSC and of the send helpers.
C19_ReceiveTimeNeverUpdated ==
  /\ last_OSC_receive_time = 0
  /\ last_OSC_receive_time <= last_OSC_send_time

\* a packet has been read and dispatched after a send moved
\* last_OSC_send_time, and last_OSC_receive_time has not moved
C19_Witness ==
  /\ Ops(Dispatches) # {} /\ packet.complete
  /\ last_OSC_send_time > 0
  /\ now > last_OSC_send_time + MINIMUM_TIME_BETWEEN_OSC_SENDS
  /\ last_OSC_receive_time = 0

\* ---------------------------------------------------------------- C20
NoTravel(g) == g.change_step # 0 /\ g.val_from = g.val_to

\* C20: a call of glowChange with nonzero change_step and val_from = val_to
\* writes no pixel, pushes nothing and takes no delay: from its entry the
\* loop condition is false, so it can only return, and the LED buffer stays
\* as it was before the call.
C20_NoTravelNoEffect ==
  (GlowCalled /\ NoTravel(call.args)) =>
    /\ call.nWrite = 0 /\ call.nShow = 0 /\ call.slept = 0
    /\ written = <<>> /\ trace = <<>>
    /\ now = call.tStart
    /\ leds = call.before
    /\ glow.active => ~GlowCond(glow.change_step, glow.j, glow.val_to)
    /\ ~glow.active => call.done

\* such a call has returned, for a pixel whose hue and saturation differ
\* from those passed
C20_Witness ==
  /\ GlowCalled /\ NoTravel(call.args) /\ call.done
  /\ call.args.change_step > 0 /\ call.args.val_from = V_FULL
  /\ leds[call.args.led].hue # call.args.hue
  /\ leds[call.args.led].sat # call.args.sat

====
